---- MODULE Spec2Model ----
(***************************************************************************)
(* Key material, identities and UserInitKey of melissa (src/keys.rs) and   *)
(* the HPKE single-shot encryption (src/crypto/hpke.rs).                   *)
(*                                                                         *)
(* Byte strings are sequences over 0..255.  A fallible call returns a      *)
(* record whose tag is "Ok" (with val, and cur: the cursor after the       *)
(* call), "Err" (CodecError::DecodingError) or "Panic" (the thread         *)
(* unwinds: an unwrap() of None/Err or a slice index out of range).        *)
(***************************************************************************)
EXTENDS Integers, Sequences, FiniteSets, TLC

\* ---------------------------------------------------------------- bounds
MaxKeys == 2        \* init keys handed to UserInitKey::new: 0..MaxKeys
MaxSuites == 2      \* ciphersuites declared by a received blob: 0..MaxSuites
NumSeeds == 2       \* distinct random draws of a key generator
MaxObjects == 2     \* secret-owning objects created in one run of the heap model
MaxSetups == 2      \* calls of setup_base_x25519_aes_128 compared with each other

\* ------------------------------------------------------ program constants
X25519PRIVATEKEYBYTES == 32
X25519PUBLICKEYBYTES == 32
PUBLICKEYBYTES == 32
SECRETKEYBYTES == 64
SIGNATUREBYTES == 64
ED25519 == 2055
ECDSA_SECP256R1_SHA256 == 1027
AES128GCM_P256_SHA256 == 0
AES128GCM_CURVE25519_SHA256 == 1

\* ------------------------------------------------------------- sequences
ConcatAll(ss) ==
    LET f[i \in 0..Len(ss)] == IF i = 0 THEN <<>> ELSE f[i - 1] \o ss[i]
    IN f[Len(ss)]

Fill(n, b) == [i \in 1..n |-> b]

\* n bytes that differ from position to position, determined by b
Pattern(n, b) == [i \in 1..n |-> (b + 7 * i) % 256]

IsZero(bytes) == \A i \in 1..Len(bytes) : bytes[i] = 0

\* the element of a one-element set.  A value is bound once, and then used
\* several times, by writing  The({ body(r) : r \in {value} }).
The(S) == CHOOSE x \in S : TRUE

\* ------------------------------------------------------------ wire codec
Ok(v, c) == [tag |-> "Ok", val |-> v, cur |-> c]
DecodingError == [tag |-> "Err"]
Panic == [tag |-> "Panic"]

Cursor_new(bytes) == [buffer |-> bytes, position |-> 0]
unread_bytes(c) == Len(c.buffer) - c.position
has_more(c) == unread_bytes(c) > 0

consume(c, n) ==
    IF unread_bytes(c) < n
    THEN DecodingError
    ELSE Ok(SubSeq(c.buffer, c.position + 1, c.position + n),
            [c EXCEPT !.position = @ + n])

sub_cursor(c, n) ==
    The({IF r.tag = "Ok" THEN Ok(Cursor_new(r.val), r.cur) ELSE r :
            r \in {consume(c, n)}})

u8_encode(v) == <<v % 256>>
u16_encode(v) == <<(v \div 256) % 256, v % 256>>

u8_decode(c) ==
    The({IF r.tag = "Ok" THEN Ok(r.val[1], r.cur) ELSE r : r \in {consume(c, 1)}})

u16_decode(c) ==
    The({IF r.tag = "Ok" THEN Ok(r.val[1] * 256 + r.val[2], r.cur) ELSE r :
            r \in {consume(c, 2)}})

\* the prefix is the byte length of the encoded elements; body is the
\* concatenation of the elements' encodings
encode_vec_u8(body) == u8_encode(Len(body)) \o body
encode_vec_u16(body) == u16_encode(Len(body)) \o body

sub_cursor_u8(c) ==
    The({IF l.tag = "Ok" THEN sub_cursor(l.cur, l.val) ELSE l : l \in {u8_decode(c)}})

sub_cursor_u16(c) ==
    The({IF l.tag = "Ok" THEN sub_cursor(l.cur, l.val) ELSE l : l \in {u16_decode(c)}})

\* decode_vec_u8::<u8> and decode_vec_u16::<u8>: the elements are the bytes
decode_vec_u8_bytes(c) ==
    The({IF s.tag = "Ok" THEN Ok(s.val.buffer, s.cur) ELSE s : s \in {sub_cursor_u8(c)}})

decode_vec_u16_bytes(c) ==
    The({IF s.tag = "Ok" THEN Ok(s.val.buffer, s.cur) ELSE s : s \in {sub_cursor_u16(c)}})

\* decode_vec_u8::<u16>: elements are read while the sub-cursor has more
decode_vec_u8_u16(c) ==
    The({IF s.tag # "Ok" THEN s
         ELSE IF Len(s.val.buffer) % 2 = 1 THEN DecodingError
         ELSE Ok([i \in 1..(Len(s.val.buffer) \div 2) |->
                     s.val.buffer[2 * i - 1] * 256 + s.val.buffer[2 * i]],
                 s.cur) :
            s \in {sub_cursor_u8(c)}})

\* ------------------------------------------- sodiumoxide: curve25519
\* a scalar is clamped before use; only its clamped value matters
Clamp(b) == IF b % 2 = 0 THEN b + 1 ELSE b

\* scalarmult: Err(()) when the product is the all-zero group element
scalarmult(scalar, group_element) ==
    The({IF IsZero(q) THEN [tag |-> "Err"] ELSE [tag |-> "Ok", val |-> q] :
            q \in {[i \in 1..X25519PUBLICKEYBYTES |->
                       (Clamp(scalar[i]) * group_element[i]) % 256]}})

scalarmult_base(scalar) ==
    [i \in 1..X25519PUBLICKEYBYTES |-> (Clamp(scalar[i]) * 9) % 256]

\* ---------------------------------------------- sodiumoxide: ed25519
\* the public key that belongs to a 32-byte seed
PublicOfSeed(seed) == [i \in 1..PUBLICKEYBYTES |-> (seed[i] * 3 + 1) % 256]

\* gen_keypair: the secret key is the seed followed by the public key
gen_keypair(seed) ==
    [public_key |-> PublicOfSeed(seed), private_key |-> seed \o PublicOfSeed(seed)]

\* the hash of a message, as a number: the sum of i * (m[i] + 1) modulo 251,
\* summed by halves
RECURSIVE DigestRange(_, _, _)
DigestRange(m, lo, hi) ==
    IF lo > hi THEN 0
    ELSE IF lo = hi THEN (lo * (m[lo] + 1)) % 251
    ELSE LET mid == (lo + hi) \div 2
         IN (DigestRange(m, lo, mid) + DigestRange(m, mid + 1, hi)) % 251

Digest(m) == The({DigestRange(v, 1, Len(v)) : v \in {m}})

\* the one signature of digest d that verifies under the public key a, made
\* with the public key p hashed into it
SignatureOf(a, p, d) ==
    [i \in 1..SIGNATUREBYTES |->
        IF i <= 32 THEN (a[i] + d + i) % 256
                   ELSE (p[i - 32] + 2 * d + i) % 256]

\* sign_detached: the scalar comes from the seed half of the secret key, the
\* hashed public key is the second half of the secret key
sign_detached(m, sk) ==
    SignatureOf(PublicOfSeed(SubSeq(sk, 1, 32)), SubSeq(sk, 33, 64), Digest(m))

verify_detached(sig, m, pk) == sig = SignatureOf(pk, pk, Digest(m))

\* ------------------------------------------------------ keys.rs: X25519
X25519PublicKey_encode(k) == encode_vec_u16(k)

\* X25519PublicKey::decode without the copy into value: the key stays zero
X25519PublicKey_decode_unfilled(c) ==
    The({IF r.tag # "Ok" THEN r
         ELSE IF Len(r.val) < X25519PUBLICKEYBYTES THEN Panic
         ELSE Ok(Fill(X25519PUBLICKEYBYTES, 0), r.cur) :
            r \in {decode_vec_u16_bytes(c)}})

\* &decode_vec_u16(cursor)?[..X25519PUBLICKEYBYTES]
X25519PublicKey_decode(c) ==
    The({IF r.tag # "Ok" THEN r
         ELSE IF Len(r.val) < X25519PUBLICKEYBYTES THEN Panic
         ELSE Ok(SubSeq(r.val, 1, X25519PUBLICKEYBYTES), r.cur) :
            r \in {decode_vec_u16_bytes(c)}})

shared_secret(private_key, p) ==
    The({IF r.tag = "Ok" THEN r ELSE [tag |-> "Zero"] :
            r \in {scalarmult(private_key, p)}})

derive_public_key(private_key) == scalarmult_base(private_key)

X25519PrivateKey_encode(k) == encode_vec_u16(k)

X25519PrivateKey_decode(c) ==
    The({IF r.tag # "Ok" THEN r
         ELSE IF Len(r.val) < X25519PRIVATEKEYBYTES THEN Panic
         ELSE Ok(SubSeq(r.val, 1, X25519PRIVATEKEYBYTES), r.cur) :
            r \in {decode_vec_u16_bytes(c)}})

\* X25519KeyPair::new_random, as a function of the bytes randombytes returns
X25519KeyPair_new_random(random_bytes) ==
    [private_key |-> random_bytes, public_key |-> scalarmult_base(random_bytes)]

\* -------------------------------------------------- keys.rs: signatures
SignaturePublicKey_encode(k) == encode_vec_u16(k)

\* from_slice is None unless the slice has exactly the key's size
SignaturePublicKey_decode(c) ==
    The({IF r.tag # "Ok" THEN r
         ELSE IF Len(r.val) # PUBLICKEYBYTES THEN Panic
         ELSE Ok(r.val, r.cur) :
            r \in {decode_vec_u16_bytes(c)}})

SignaturePrivateKey_encode(k) == encode_vec_u16(k)

SignaturePrivateKey_decode(c) ==
    The({IF r.tag # "Ok" THEN r
         ELSE IF Len(r.val) # SECRETKEYBYTES THEN Panic
         ELSE Ok(r.val, r.cur) :
            r \in {decode_vec_u16_bytes(c)}})

Signature_encode(s) == encode_vec_u16(s)

Signature_decode(c) ==
    The({IF r.tag # "Ok" THEN r
         ELSE IF Len(r.val) # SIGNATUREBYTES THEN Panic
         ELSE Ok(r.val, r.cur) :
            r \in {decode_vec_u16_bytes(c)}})

\* ---------------------------------------------------- keys.rs: Identity
Identity_encode(idn) ==
    encode_vec_u8(idn.id) \o SignaturePublicKey_encode(idn.public_key)
        \o SignaturePrivateKey_encode(idn.private_key)

Identity_decode(c) ==
    The({IF i.tag # "Ok" THEN i ELSE
    The({IF p.tag # "Ok" THEN p ELSE
    The({IF s.tag # "Ok" THEN s ELSE
         Ok([id |-> i.val, public_key |-> p.val, private_key |-> s.val], s.cur) :
      s \in {SignaturePrivateKey_decode(p.cur)}}) :
      p \in {SignaturePublicKey_decode(i.cur)}}) :
      i \in {decode_vec_u8_bytes(c)}})

Identity_random(id, seed) ==
    The({[id |-> id, public_key |-> kp.public_key, private_key |-> kp.private_key] :
            kp \in {gen_keypair(seed)}})

Identity_sign(idn, payload) == sign_detached(payload, idn.private_key)
Identity_verify(idn, payload, signature) ==
    verify_detached(signature, payload, idn.public_key)

\* ------------------------------------------------- keys.rs: UserInitKey
\* unsigned_payload writing the algorithm before the init keys
unsigned_payload_algorithm_first(u) ==
    encode_vec_u8(ConcatAll([i \in 1..Len(u.cipher_suites) |->
                                u16_encode(u.cipher_suites[i])]))
        \o u16_encode(u.algorithm)
        \o encode_vec_u16(ConcatAll([i \in 1..Len(u.init_keys) |->
                                X25519PublicKey_encode(u.init_keys[i])]))
        \o SignaturePublicKey_encode(u.identity_key)

\* encode_vec_u8(buffer, &self.cipher_suites); encode_vec_u16(buffer,
\* &self.init_keys); self.algorithm.encode; self.identity_key.encode
unsigned_payload(u) ==
    encode_vec_u8(ConcatAll([i \in 1..Len(u.cipher_suites) |->
                                u16_encode(u.cipher_suites[i])]))
        \o encode_vec_u16(ConcatAll([i \in 1..Len(u.init_keys) |->
                                X25519PublicKey_encode(u.init_keys[i])]))
        \o u16_encode(u.algorithm)
        \o SignaturePublicKey_encode(u.identity_key)

\* UserInitKey::new without the line that overwrites the placeholder signature
UserInitKey_new_placeholder(init_keys, identity) ==
    [cipher_suites |-> <<AES128GCM_CURVE25519_SHA256>>,
     init_keys |-> init_keys,
     algorithm |-> ED25519,
     identity_key |-> identity.public_key,
     signature |-> Fill(SIGNATUREBYTES, 0)]

UserInitKey_new(init_keys, identity) ==
    The({[init_key EXCEPT
             !.signature = Identity_sign(identity, unsigned_payload(init_key))] :
            init_key \in {[cipher_suites |-> <<AES128GCM_CURVE25519_SHA256>>,
                           init_keys |-> init_keys,
                           algorithm |-> ED25519,
                           identity_key |-> identity.public_key,
                           signature |-> Fill(SIGNATUREBYTES, 0)]}})

self_verify(u) == verify_detached(u.signature, unsigned_payload(u), u.identity_key)

\* UserInitKey::encode writing the signature without its length prefix
UserInitKey_encode_bare_signature(u) == unsigned_payload(u) \o u.signature

UserInitKey_encode(u) == unsigned_payload(u) \o Signature_encode(u.signature)

\* one turn of the loop of UserInitKey::decode: the match on cs, from the
\* state prev = [tag, cur: the cs_payload cursor, key, found]
decode_suite(prev, cs) ==
    IF prev.tag # "Ok" THEN prev
    ELSE IF cs = AES128GCM_P256_SHA256
    THEN The({IF r.tag # "Ok" THEN [tag |-> r.tag] ELSE [prev EXCEPT !.cur = r.cur] :
                 r \in {decode_vec_u16_bytes(prev.cur)}})
    ELSE IF cs = AES128GCM_CURVE25519_SHA256
    THEN The({IF r.tag # "Ok" THEN [tag |-> r.tag]
              ELSE [tag |-> "Ok", cur |-> r.cur, key |-> r.val, found |-> TRUE] :
                 r \in {X25519PublicKey_decode(prev.cur)}})
    ELSE DecodingError

\* the loop over cipher_suites: the state after the first n suites
RECURSIVE decode_suites(_, _, _)
decode_suites(cipher_suites, cs_payload, n) ==
    IF n = 0
    THEN [tag |-> "Ok", cur |-> cs_payload, key |-> <<>>, found |-> FALSE]
    ELSE The({decode_suite(prev, cipher_suites[n]) :
                 prev \in {decode_suites(cipher_suites, cs_payload, n - 1)}})

UserInitKey_decode(cursor) ==
    The({IF cs.tag # "Ok" THEN cs ELSE
    The({IF sub.tag # "Ok" THEN sub ELSE
         IF Len(cs.val) = 0 THEN DecodingError ELSE
    The({IF l.tag # "Ok" THEN [tag |-> l.tag] ELSE
         IF ~l.found THEN DecodingError ELSE
    The({IF alg.tag # "Ok" THEN alg ELSE
         IF alg.val # ED25519 THEN DecodingError ELSE
    The({IF ik.tag # "Ok" THEN ik ELSE
    The({IF sg.tag # "Ok" THEN sg ELSE
         Ok([cipher_suites |-> cs.val,
             init_keys |-> <<l.key>>,
             algorithm |-> alg.val,
             identity_key |-> ik.val,
             signature |-> sg.val], sg.cur) :
      sg \in {Signature_decode(ik.cur)}}) :
      ik \in {SignaturePublicKey_decode(alg.cur)}}) :
      alg \in {u16_decode(sub.cur)}}) :
      l \in {decode_suites(cs.val, sub.val, Len(cs.val))}}) :
      sub \in {sub_cursor_u16(cs.cur)}}) :
      cs \in {decode_vec_u8_u16(cursor)}})

\* ------------------------------------------- keys.rs: UserInitKeyBundle
\* kp = X25519KeyPair::new_random(); the bundle owns kp.private_key and
\* advertises kp.public_key
UserInitKeyBundle_new(identity, random_bytes) ==
    The({[init_key |-> UserInitKey_new(<<kp.public_key>>, identity),
          private_keys |-> <<kp.private_key>>] :
            kp \in {X25519KeyPair_new_random(random_bytes)}})

\* one turn of decode_vec_u16::<X25519PrivateKey>: a key is read if the
\* sub-cursor has more; prev = [tag, cur, keys]
decode_private_key(prev) ==
    IF prev.tag # "Ok" \/ ~has_more(prev.cur) THEN prev
    ELSE The({IF k.tag # "Ok" THEN [tag |-> k.tag]
              ELSE [tag |-> "Ok", cur |-> k.cur, keys |-> Append(prev.keys, k.val)] :
                 k \in {X25519PrivateKey_decode(prev.cur)}})

\* the state after at most n keys
RECURSIVE decode_private_keys(_, _)
decode_private_keys(sub, n) ==
    IF n = 0 THEN [tag |-> "Ok", cur |-> sub, keys |-> <<>>]
    ELSE The({decode_private_key(prev) : prev \in {decode_private_keys(sub, n - 1)}})

\* a key takes 2 bytes or more, so (len + 1) / 2 turns empty the sub-cursor
\* or fail
decode_vec_u16_private_keys(c) ==
    The({IF s.tag # "Ok" THEN s ELSE
    The({IF st.tag # "Ok" THEN [tag |-> st.tag] ELSE Ok(st.keys, s.cur) :
      st \in {decode_private_keys(s.val, (Len(s.val.buffer) + 1) \div 2)}}) :
      s \in {sub_cursor_u16(c)}})

UserInitKeyBundle_decode(cursor) ==
    The({IF ik.tag # "Ok" THEN ik ELSE
    The({IF pk.tag # "Ok" THEN pk ELSE
         Ok([init_key |-> ik.val, private_keys |-> pk.val], pk.cur) :
      pk \in {decode_vec_u16_private_keys(ik.cur)}}) :
      ik \in {UserInitKey_decode(cursor)}})

\* ------------------------------------------------ crypto: hkdf, aesgcm
\* hkdf::extract and hkdf::expand, as functions of their inputs
hkdf_extract(salt, input) ==
    [i \in 1..32 |-> (salt[i] + 3 * input[i] + 11 * i) % 256]

hkdf_expand(prk, info, length) ==
    The({[i \in 1..length |-> (prk[i] + d + 5 * i) % 256] : d \in {Digest(info)}})

\* aes_128_seal: the ciphertext of the plaintext followed by a 16-byte tag,
\* or AesError when the primitive fails
aes_128_seal(plaintext, key, nonce, fails) ==
    IF fails THEN [tag |-> "Err"]
    ELSE [tag |-> "Ok",
          val |-> [i \in 1..Len(plaintext) |->
                      (plaintext[i] + key[((i - 1) % 16) + 1]) % 256]
                  \o The({[i \in 1..16 |-> (key[i] + nonce[((i - 1) % 12) + 1] + d) % 256] :
                            d \in {Digest(plaintext)}})]

\* ------------------------------------------------------- crypto/hpke.rs
NK_AES_GCM_128 == 16
NN_AES_GCM_128 == 12
X25519Sha256Aes128gcm == 3
Base == 0

HpkeContext_encode(ctx) ==
    u16_encode(ctx.ciphersuite) \o u8_encode(ctx.mode)
        \o encode_vec_u8(ctx.kem_context) \o encode_vec_u8(ctx.info)

\* "hpke key" and "hpke nonce" as bytes
label_key == <<104, 112, 107, 101, 32, 107, 101, 121>>
label_nonce == <<104, 112, 107, 101, 32, 110, 111, 110, 99, 101>>

\* context_buffer: the encoding of the HpkeContext of the call
hpke_context_buffer(mode, kem_context, info) ==
    HpkeContext_encode([ciphersuite |-> X25519Sha256Aes128gcm,
                        mode |-> mode,
                        kem_context |-> kem_context,
                        info |-> info])

\* the labels handed to hkdf::expand: "hpke key" + context, "hpke nonce" + context
key_label(context_buffer) == label_key \o context_buffer
nonce_label(context_buffer) == label_nonce \o context_buffer

setup_core_x25519_aes_128(mode, secret, kem_context, info) ==
    The({[key |-> hkdf_expand(secret, key_label(context_buffer), NK_AES_GCM_128),
          nonce |-> hkdf_expand(secret, nonce_label(context_buffer), NN_AES_GCM_128)] :
            context_buffer \in {hpke_context_buffer(mode, kem_context, info)}})

\* kem_context without the recipient key
kem_context_enc_only(pkr, enc) == enc

\* kem_context: enc followed by the bytes of the recipient key
kem_context(pkr, enc) == enc \o pkr

setup_base_x25519_aes_128(pkr, zz, enc, info) ==
    setup_core_x25519_aes_128(Base, hkdf_extract(Fill(32, 0), zz),
                              kem_context(pkr, enc), info)

\* what enc_x25519_aes hands to aes_128_seal: enc as the plaintext, the key
\* and the nonce of setup_base with an empty info, and nothing else, so the
\* additional authenticated data of the seal is empty
seal_arguments(public_key, zz, enc) ==
    The({[plaintext |-> enc, key |-> kn.key, nonce |-> kn.nonce, aad |-> <<>>] :
            kn \in {setup_base_x25519_aes_128(public_key, zz, enc, <<>>)}})

\* zz = shared_secret(public_key).unwrap(); content = aes_128_seal(..)?
\* seal logs the call of aes_128_seal that was made
enc_x25519_aes(public_key, enc, ephemeral_key_pair, seal_fails) ==
    The({IF zz.tag # "Ok" THEN Panic ELSE
    The({
    The({IF content.tag # "Ok" THEN [tag |-> "Err", seal |-> seal]
         ELSE [tag |-> "Ok",
               val |-> [ephemeral_public_key |-> ephemeral_key_pair.public_key,
                        content |-> content.val],
               seal |-> seal] :
      content \in {aes_128_seal(seal.plaintext, seal.key, seal.nonce, seal_fails)}}) :
      seal \in {seal_arguments(public_key, zz.val, enc)}}) :
      zz \in {shared_secret(ephemeral_key_pair.private_key, public_key)}})

HpkeCiphertext_encrypt(public_key, enc, random_bytes, seal_fails) ==
    enc_x25519_aes(public_key, enc, X25519KeyPair_new_random(random_bytes), seal_fails)

HpkeCiphertext_encrypt_with_ephemeral(public_key, enc, key_pair, seal_fails) ==
    enc_x25519_aes(public_key, enc, key_pair, seal_fails)

\* ------------------------------------------------------- utils: erase
erase(bytes) == Fill(Len(bytes), 0)

\* ---------------------------------------- keys.rs: where key bytes live
\* A buffer is [kind, bytes, released]: released buffers keep the bytes they
\* held when their memory was given back.

\* the buffers X25519KeyPair::new_random leaves behind when it returns: the
\* Vec<u8> randombytes returned, dropped as it is; the local Scalar, which
\* sodiumoxide zeroes when dropped; the X25519PrivateKey of the returned pair
new_random_buffers(random_bytes) ==
    <<[kind |-> "Vec", bytes |-> random_bytes, released |-> TRUE],
      [kind |-> "Scalar", bytes |-> erase(random_bytes), released |-> TRUE],
      [kind |-> "X25519PrivateKey",
       bytes |-> X25519KeyPair_new_random(random_bytes).private_key,
       released |-> FALSE]>>

\* Identity::random: the SecretKey gen_keypair returned moves into the Identity
identity_random_buffers(seed) ==
    <<[kind |-> "Identity", bytes |-> Identity_random(<<1, 2, 3, 4>>, seed).private_key,
       released |-> FALSE]>>

\* Drop for X25519PrivateKey and for Identity: erase, then the memory goes
drop(b) == [b EXCEPT !.bytes = erase(b.bytes), !.released = TRUE]

\* shared_secret: Scalar::from_slice copies the key into a Scalar that
\* sodiumoxide zeroes when it is dropped on return
shared_secret_buffers(b) ==
    <<[kind |-> "Scalar", bytes |-> erase(b.bytes), released |-> TRUE]>>

Owners(h) == {i \in 1..Len(h) : h[i].kind \in {"X25519PrivateKey", "Identity"}}
Temporaries(h) == {i \in 1..Len(h) : h[i].kind \in {"Vec", "Scalar"}}

\* ================================================================ inputs
None == [tag |-> "None"]

SeqsUpTo(S, n) == UNION {[1..k -> S] : k \in 0..n}

\* what a generator of 32 random bytes can return
Seeds == {Pattern(32, 16 * s) : s \in 1..NumSeeds}

Ids == {<<1, 2, 3, 4>>}

Payloads == {<<>>, <<0, 1, 2, 3>>}

PublicKeys == {scalarmult_base(s) : s \in Seeds}

\* an Identity on the wire; the three key parts need not belong together
IdentityBlob(id, pk, seed, pk2) ==
    encode_vec_u8(id) \o encode_vec_u16(pk) \o encode_vec_u16(seed \o pk2)

IdentityBlobs ==
    {IdentityBlob(id, PublicOfSeed(s1), s2, PublicOfSeed(s3)) :
        id \in Ids, s1 \in Seeds, s2 \in Seeds, s3 \in Seeds}
    \cup {IdentityBlob(id, Pattern(31, 1), s, PublicOfSeed(s)) : id \in Ids, s \in Seeds}
    \cup {SubSeq(IdentityBlob(id, PublicOfSeed(s), s, PublicOfSeed(s)), 1, 40) :
            id \in Ids, s \in Seeds}

\* a UserInitKey on the wire: the suites it declares, one key field of klen
\* bytes per suite, extra bytes closing the key-suite block, the algorithm,
\* the identity key and the signature with their declared lengths; tail = 1
\* appends a byte after the signature and tail = -1 cuts the last byte off
WireBlob(suites, klen, extra, alg, idlen, siglen, tail) ==
    The({IF tail < 0 THEN SubSeq(body, 1, Len(body) - 1) ELSE body \o Fill(tail, 255) :
      body \in
        {encode_vec_u8(ConcatAll([i \in 1..Len(suites) |-> u16_encode(suites[i])]))
         \o encode_vec_u16(
                ConcatAll([i \in 1..Len(suites) |->
                              encode_vec_u16(Pattern(klen, 10 * i))])
                \o Fill(extra, 170))
         \o u16_encode(alg)
         \o encode_vec_u16(Pattern(idlen, 3))
         \o encode_vec_u16(Pattern(siglen, 5))}})

SuiteIds == {AES128GCM_P256_SHA256, AES128GCM_CURVE25519_SHA256, 2}

WireBlobs ==
    {WireBlob(suites, klen, extra, alg, idlen, siglen, tail) :
        suites \in SeqsUpTo(SuiteIds, MaxSuites),
        klen \in {X25519PUBLICKEYBYTES - 1, X25519PUBLICKEYBYTES,
                  X25519PUBLICKEYBYTES + 1},
        extra \in {0, 1},
        alg \in {ED25519, ECDSA_SECP256R1_SHA256},
        idlen \in {PUBLICKEYBYTES - 1, PUBLICKEYBYTES, PUBLICKEYBYTES + 1},
        siglen \in {SIGNATUREBYTES - 1, SIGNATUREBYTES, SIGNATUREBYTES + 1},
        tail \in {-1, 0, 1}}

\* a UserInitKeyBundle on the wire: a well-formed UserInitKey for the public
\* key of seed, followed by the list of private keys
BundleBlob(seed, private_keys) ==
    UserInitKey_encode(UserInitKey_new(<<scalarmult_base(seed)>>,
                                       Identity_random(<<1, 2, 3, 4>>, seed)))
    \o encode_vec_u16(ConcatAll([i \in 1..Len(private_keys) |->
                                    encode_vec_u16(private_keys[i])]))

BundleBlobs ==
    {BundleBlob(seed, pks) :
        seed \in Seeds, pks \in SeqsUpTo(Seeds \cup {Pattern(31, 1)}, MaxKeys)}

\* the recipient keys an encryption can be asked to use: keys of real key
\* pairs and the all-zero point, whose product with any scalar is zero
RecipientKeys == PublicKeys \cup {Fill(X25519PUBLICKEYBYTES, 0)}

\* the byte strings handed to encrypt as enc
Encs == {<<>>, <<7>>, Pattern(32, 1)}

\* the info strings of a key schedule: enc_x25519_aes always passes the empty
\* one; the others are what another caller of setup_base could pass
Infos == {<<>>, <<7>>}

\* the shared secrets a key schedule starts from
SharedSecrets == {shared_secret(s, p).val : s \in Seeds, p \in PublicKeys}

\* the vector of test_user_init_key
TestVector ==
    [cipher_suites |-> <<AES128GCM_CURVE25519_SHA256>>,
     init_keys |-> << <<60,179,252,107,146,113,179,8,239,237,192,41,80,34,120,222,
                       212,47,196,175,24,26,68,227,21,73,245,59,155,247,67,108>> >>,
     algorithm |-> ED25519,
     identity_key |-> <<95,51,77,3,66,89,226,214,103,13,108,168,245,169,55,234,
                        124,233,67,130,89,41,47,136,114,174,166,199,187,138,162,192>>,
     signature |-> <<125,241,31,99,146,220,127,27,214,250,251,52,170,34,12,84,
                     87,210,229,138,43,178,194,29,164,135,138,62,138,184,176,186,
                     42,242,168,126,113,2,210,61,225,105,248,128,227,134,136,64,
                     107,52,229,130,182,233,120,134,119,85,227,127,179,82,219,12>>]

\* uik_hex of test_user_init_key and test_uik_interop
uik_hex ==
    <<2, 0, 1, 0, 34, 0, 32>> \o TestVector.init_keys[1]
    \o <<8, 7, 0, 32>> \o TestVector.identity_key
    \o <<0, 64>> \o TestVector.signature

\* ================================================================= state
VARIABLES
    identity,       \* the Identity of this user: None, or how it was obtained
    signed,         \* the last payload signed and verified with identity
    init_key,       \* the UserInitKey built locally
    self_verified,  \* what self_verify returned for init_key
    buffer,         \* the bytes encoded locally or received
    decoded,        \* what UserInitKey::decode returned for buffer
    reencoded,      \* the bytes encoded from the decoded UserInitKey
    bundle,         \* the UserInitKeyBundle built or decoded
    recipient,      \* the recipient public key of an HPKE encryption
    ephemeral,      \* the X25519KeyPair the caller holds for encrypt_with_ephemeral
    ciphertext,     \* what the last HPKE encryption returned, and from what
    setups,         \* the calls of setup_base_x25519_aes_128 made so far: their
                    \* arguments, context bytes, labels and result
    heap            \* every buffer that held key bytes: its bytes, and whether
                    \* it is still owned or was released

keyVars == <<identity, signed, init_key, self_verified, buffer, decoded, reencoded,
             bundle>>
hpkeVars == <<recipient, ephemeral, ciphertext, setups>>
vars == <<keyVars, hpkeVars, heap>>

Init ==
    /\ identity = None
    /\ signed = None
    /\ init_key = None
    /\ self_verified = "none"
    /\ buffer = <<>>
    /\ decoded = None
    /\ reencoded = None
    /\ bundle = None
    /\ recipient = None
    /\ ephemeral = None
    /\ ciphertext = None
    /\ setups = <<>>
    /\ heap = <<>>

\* ------------------------------------------------------ local operations
IdentityRandom ==
    /\ identity = None
    /\ \E id \in Ids, seed \in Seeds :
          identity' = [tag |-> "Ok", val |-> Identity_random(id, seed),
                       from |-> "random"]
    /\ UNCHANGED <<hpkeVars, heap, signed, init_key, self_verified, buffer, decoded, reencoded, bundle>>

IdentityDecode ==
    /\ identity = None
    /\ \E blob \in IdentityBlobs :
          \E r \in {Identity_decode(Cursor_new(blob))} :
             identity' = IF r.tag = "Ok"
                         THEN [tag |-> "Ok", val |-> r.val, from |-> "decode"]
                         ELSE [tag |-> r.tag, from |-> "decode"]
    /\ UNCHANGED <<hpkeVars, heap, signed, init_key, self_verified, buffer, decoded, reencoded, bundle>>

\* signature = identity.sign(payload); identity.verify(payload, &signature)
SignVerify ==
    /\ identity.tag = "Ok"
    /\ signed = None
    /\ \E payload \in Payloads :
          \E signature \in {Identity_sign(identity.val, payload)} :
             signed' = [tag |-> "Ok", payload |-> payload, signature |-> signature,
                        verified |-> Identity_verify(identity.val, payload, signature)]
    /\ UNCHANGED <<hpkeVars, heap, identity, init_key, self_verified, buffer, decoded, reencoded, bundle>>

New ==
    /\ identity.tag = "Ok"
    /\ init_key = None
    /\ \E keys \in SeqsUpTo(PublicKeys, MaxKeys) :
          init_key' = [tag |-> "Ok", val |-> UserInitKey_new(keys, identity.val),
                       from |-> "new"]
    /\ UNCHANGED <<hpkeVars, heap, identity, signed, self_verified, buffer, decoded, reencoded, bundle>>

\* the object test_user_init_key builds field by field
TestUserInitKey ==
    /\ identity = None
    /\ init_key = None
    /\ init_key' = [tag |-> "Ok", val |-> TestVector, from |-> "test"]
    /\ UNCHANGED <<hpkeVars, heap, identity, signed, self_verified, buffer, decoded, reencoded, bundle>>

SelfVerify ==
    /\ init_key.tag = "Ok"
    /\ self_verified = "none"
    /\ self_verified' = IF self_verify(init_key.val) THEN "true" ELSE "false"
    /\ UNCHANGED <<hpkeVars, heap, identity, signed, init_key, buffer, decoded, reencoded, bundle>>

Encode ==
    /\ init_key.tag = "Ok"
    /\ buffer = <<>>
    /\ buffer' = UserInitKey_encode(init_key.val)
    /\ UNCHANGED <<hpkeVars, heap, identity, signed, init_key, self_verified, decoded, reencoded, bundle>>

Decode ==
    /\ buffer # <<>>
    /\ decoded = None
    /\ decoded' = UserInitKey_decode(Cursor_new(buffer))
    /\ UNCHANGED <<hpkeVars, heap, identity, signed, init_key, self_verified, buffer, reencoded, bundle>>

BundleNew ==
    /\ identity.tag = "Ok"
    /\ bundle = None
    /\ \E random_bytes \in Seeds :
          bundle' = [tag |-> "Ok",
                     val |-> UserInitKeyBundle_new(identity.val, random_bytes),
                     from |-> "new"]
    /\ UNCHANGED <<hpkeVars, heap, identity, signed, init_key, self_verified, buffer, decoded, reencoded>>

Next ==
    \/ IdentityRandom
    \/ IdentityDecode
    \/ SignVerify
    \/ New
    \/ TestUserInitKey
    \/ SelfVerify
    \/ Encode
    \/ Decode
    \/ BundleNew

Spec == Init /\ [][Next]_vars

\* ------------------------------------------------ operations on the wire
Receive ==
    /\ buffer = <<>>
    /\ \E blob \in WireBlobs \cup {uik_hex} : buffer' = blob
    /\ UNCHANGED <<hpkeVars, heap, identity, signed, init_key, self_verified, decoded, reencoded, bundle>>

\* uik.encode(&mut buffer) on the object decode returned, as test_uik_interop
Reencode ==
    /\ decoded.tag = "Ok"
    /\ reencoded = None
    /\ reencoded' = [tag |-> "Ok", val |-> UserInitKey_encode(decoded.val)]
    /\ UNCHANGED <<hpkeVars, heap, identity, signed, init_key, self_verified, buffer, decoded, bundle>>

ReceiveBundle ==
    /\ buffer = <<>>
    /\ \E blob \in BundleBlobs : buffer' = blob
    /\ UNCHANGED <<hpkeVars, heap, identity, signed, init_key, self_verified, decoded, reencoded, bundle>>

BundleDecode ==
    /\ buffer # <<>>
    /\ bundle = None
    /\ \E r \in {UserInitKeyBundle_decode(Cursor_new(buffer))} :
          bundle' = IF r.tag = "Ok"
                    THEN [tag |-> "Ok", val |-> r.val, from |-> "decode"]
                    ELSE [tag |-> r.tag, from |-> "decode"]
    /\ UNCHANGED <<hpkeVars, heap, identity, signed, init_key, self_verified, buffer, decoded, reencoded>>

NextWire ==
    \/ Receive
    \/ Decode
    \/ Reencode
    \/ ReceiveBundle
    \/ BundleDecode

SpecWire == Init /\ [][NextWire]_vars

\* ------------------------------------------------------ HPKE operations
ReceiveRecipientKey ==
    /\ recipient = None
    /\ \E pk \in RecipientKeys : recipient' = [tag |-> "Ok", val |-> pk]
    /\ UNCHANGED <<keyVars, ephemeral, ciphertext, setups, heap>>

EphemeralNewRandom ==
    /\ ephemeral = None
    /\ \E random_bytes \in Seeds :
          ephemeral' = [tag |-> "Ok", val |-> X25519KeyPair_new_random(random_bytes),
                        from |-> "new_random"]
    /\ UNCHANGED <<keyVars, recipient, ciphertext, setups, heap>>

\* X25519KeyPair { private_key, public_key } built by the caller from the
\* public from_slice constructors
EphemeralFromParts ==
    /\ ephemeral = None
    /\ \E s1 \in Seeds, s2 \in Seeds :
          ephemeral' = [tag |-> "Ok",
                        val |-> [private_key |-> s1, public_key |-> scalarmult_base(s2)],
                        from |-> "parts"]
    /\ UNCHANGED <<keyVars, recipient, ciphertext, setups, heap>>

Encrypt ==
    /\ recipient.tag = "Ok"
    /\ ciphertext = None
    /\ \E enc \in Encs, random_bytes \in Seeds, seal_fails \in BOOLEAN :
          ciphertext' =
              [op |-> "encrypt", enc |-> enc,
               key_pair |-> X25519KeyPair_new_random(random_bytes),
               result |-> HpkeCiphertext_encrypt(recipient.val, enc, random_bytes,
                                                 seal_fails)]
    /\ UNCHANGED <<keyVars, recipient, ephemeral, setups, heap>>

EncryptWithEphemeral ==
    /\ recipient.tag = "Ok"
    /\ ephemeral.tag = "Ok"
    /\ ciphertext = None
    /\ \E enc \in Encs, seal_fails \in BOOLEAN :
          ciphertext' =
              [op |-> "encrypt_with_ephemeral", enc |-> enc,
               key_pair |-> ephemeral.val,
               result |-> HpkeCiphertext_encrypt_with_ephemeral(
                              recipient.val, enc, ephemeral.val, seal_fails)]
    /\ UNCHANGED <<keyVars, recipient, ephemeral, setups, heap>>

NextHpke ==
    \/ ReceiveRecipientKey
    \/ EphemeralNewRandom
    \/ EphemeralFromParts
    \/ Encrypt
    \/ EncryptWithEphemeral

SpecHpke == Init /\ [][NextHpke]_vars

\* ------------------------------------------------------- key schedules
\* one call of setup_base_x25519_aes_128; every call after the first starts
\* from the shared secret of the first
SetupBase ==
    /\ Len(setups) < MaxSetups
    /\ \E pkr \in RecipientKeys, enc \in Encs, info \in Infos,
          zz \in (IF setups = <<>> THEN SharedSecrets ELSE {setups[1].zz}),
          mode \in {Base} :
          \E context_buffer \in {hpke_context_buffer(mode, kem_context(pkr, enc), info)} :
             setups' = Append(setups,
                 [pkr |-> pkr, zz |-> zz, enc |-> enc, info |-> info,
                  context_buffer |-> context_buffer,
                  key_label |-> key_label(context_buffer),
                  nonce_label |-> nonce_label(context_buffer),
                  result |-> setup_base_x25519_aes_128(pkr, zz, enc, info)])
    /\ UNCHANGED <<keyVars, recipient, ephemeral, ciphertext, heap>>

NextSetup == SetupBase

SpecSetup == Init /\ [][NextSetup]_vars

\* ---------------------------------------------- key memory operations
HeapNewRandom ==
    /\ Cardinality(Owners(heap)) < MaxObjects
    /\ \E random_bytes \in Seeds : heap' = heap \o new_random_buffers(random_bytes)
    /\ UNCHANGED <<keyVars, hpkeVars>>

HeapIdentityRandom ==
    /\ Cardinality(Owners(heap)) < MaxObjects
    /\ \E seed \in Seeds : heap' = heap \o identity_random_buffers(seed)
    /\ UNCHANGED <<keyVars, hpkeVars>>

\* #[derive(Clone)]: a second owner of the same bytes
HeapClone ==
    /\ Cardinality(Owners(heap)) < MaxObjects
    /\ \E i \in Owners(heap) :
          /\ ~heap[i].released
          /\ heap' = Append(heap, heap[i])
    /\ UNCHANGED <<keyVars, hpkeVars>>

HeapSharedSecret ==
    /\ Cardinality(Temporaries(heap)) < 2 * MaxObjects
    /\ \E i \in Owners(heap) :
          /\ ~heap[i].released
          /\ heap[i].kind = "X25519PrivateKey"
          /\ heap' = heap \o shared_secret_buffers(heap[i])
    /\ UNCHANGED <<keyVars, hpkeVars>>

HeapDrop ==
    /\ \E i \in Owners(heap) :
          /\ ~heap[i].released
          /\ heap' = [heap EXCEPT ![i] = drop(heap[i])]
    /\ UNCHANGED <<keyVars, hpkeVars>>

NextHeap ==
    \/ HeapNewRandom
    \/ HeapIdentityRandom
    \/ HeapClone
    \/ HeapSharedSecret
    \/ HeapDrop

SpecHeap == Init /\ [][NextHeap]_vars

\* ================================================================ claims

\* ---- C1, as stated: whatever keys UserInitKey::new was given, decoding the
\* bytes encode wrote succeeds and returns the object that was encoded.
C1_RoundTripAnyKeys ==
    (init_key.tag = "Ok" /\ init_key.from = "new" /\ decoded.tag # "None")
        => (decoded.tag = "Ok" /\ decoded.val = init_key.val)

\* ---- C1, amended: when UserInitKey::new was given exactly one key, decoding
\* the bytes encode wrote succeeds, consumes all of them and returns an object
\* with the same cipher_suites, init_keys, algorithm, identity_key, signature.
C1_RoundTripOneKey ==
    (init_key.tag = "Ok" /\ init_key.from = "new" /\ decoded.tag # "None"
        /\ Len(init_key.val.init_keys) = 1)
        => /\ decoded.tag = "Ok"
           /\ decoded.val = init_key.val
           /\ decoded.cur.position = Len(buffer)

C1_Witness ==
    /\ init_key.tag = "Ok" /\ init_key.from = "new"
    /\ Len(init_key.val.init_keys) = 1
    /\ decoded.tag = "Ok"
    /\ decoded.val.init_keys = init_key.val.init_keys

\* the bytes of buffer that decode consumed
Consumed == SubSeq(buffer, 1, decoded.cur.position)

\* ---- C2, as stated: for every received byte string on which decode
\* succeeds, encoding the decoded object gives back the bytes decode consumed.
C2_ReencodeAnyBlob ==
    reencoded.tag = "Ok" => reencoded.val = Consumed

\* buffer declares exactly one ciphersuite, and its key-suite block is exactly
\* one key field of X25519PUBLICKEYBYTES bytes
OneSuiteOneKey ==
    /\ Len(buffer) >= 7
    /\ buffer[1] = 2
    /\ buffer[4] * 256 + buffer[5] = 2 + X25519PUBLICKEYBYTES
    /\ buffer[6] * 256 + buffer[7] = X25519PUBLICKEYBYTES

\* ---- C2, amended: for every received byte string on which decode succeeds
\* and which declares exactly one ciphersuite and whose key-suite block is
\* exactly one length-prefixed 32-byte key, encoding the decoded object gives
\* back the bytes decode consumed.
C2_ReencodeCanonicalBlob ==
    (reencoded.tag = "Ok" /\ OneSuiteOneKey) => reencoded.val = Consumed

\* a canonical blob followed by a byte decode does not consume
C2_Witness ==
    /\ reencoded.tag = "Ok"
    /\ OneSuiteOneKey
    /\ buffer # uik_hex
    /\ decoded.cur.position < Len(buffer)
    /\ reencoded.val = Consumed

\* the ciphersuite list and the algorithm field a blob declares, read with
\* the wire codec alone
DeclaredSuites == decode_vec_u8_u16(Cursor_new(buffer))

DeclaredAlgorithm ==
    The({IF cs.tag # "Ok" THEN cs ELSE
    The({IF sub.tag # "Ok" THEN sub ELSE u16_decode(sub.cur) :
      sub \in {sub_cursor_u16(cs.cur)}}) :
      cs \in {DeclaredSuites}})

MustBeRejected ==
    \/ /\ DeclaredSuites.tag = "Ok"
       /\ \/ Len(DeclaredSuites.val) = 0
          \/ \E i \in 1..Len(DeclaredSuites.val) :
                DeclaredSuites.val[i] \notin
                    {AES128GCM_P256_SHA256, AES128GCM_CURVE25519_SHA256}
          \/ \A i \in 1..Len(DeclaredSuites.val) :
                DeclaredSuites.val[i] # AES128GCM_CURVE25519_SHA256
    \/ /\ DeclaredAlgorithm.tag = "Ok"
       /\ DeclaredAlgorithm.val # ED25519

\* ---- C3: decode returns a decode error for every blob whose ciphersuite
\* list is empty, holds an unknown id or holds no X25519 entry, or whose
\* signature algorithm is not ED25519.
C3_DecodeRejection ==
    (decoded.tag # "None" /\ MustBeRejected) => decoded.tag = "Err"

\* ---- C4: for every input, UserInitKey::decode and the decoders it calls
\* return a value or CodecError::DecodingError; they never panic.
C4_DecodeNeverPanics ==
    decoded.tag \in {"None", "Ok", "Err"}

\* ---- C6: the object UserInitKey::new returns for an Identity made by
\* Identity::random passes self_verify; its identity_key is the identity's
\* public key and its signature is the identity's signature over its
\* unsigned_payload.
C6_SelfVerifying ==
    (init_key.tag = "Ok" /\ init_key.from = "new" /\ identity.from = "random")
        => /\ self_verified \in {"none", "true"}
           /\ init_key.val.identity_key = identity.val.public_key
           /\ init_key.val.signature =
                  Identity_sign(identity.val, unsigned_payload(init_key.val))
           /\ Identity_verify(identity.val, unsigned_payload(init_key.val),
                              init_key.val.signature)

C6_Witness ==
    /\ init_key.tag = "Ok" /\ init_key.from = "new" /\ identity.from = "random"
    /\ Len(init_key.val.init_keys) = 2
    /\ self_verified = "true"

\* ---- C7: for every Identity, from Identity::random or from a successful
\* Identity::decode, and every payload, verify(payload, sign(payload)) is
\* true, and the public key is the one the private key determines.
C7_SignVerify ==
    signed.tag = "Ok" =>
        /\ signed.verified
        /\ identity.val.public_key =
               PublicOfSeed(SubSeq(identity.val.private_key, 1, 32))

\* the layout the claim C9 words: a count of ciphersuites, then per suite a
\* key field
C9_ClaimedLayout(u) ==
    <<Len(u.cipher_suites)>>
    \o ConcatAll([i \in 1..Len(u.cipher_suites) |->
                     <<u.cipher_suites[i] \div 256, u.cipher_suites[i] % 256>>])
    \o <<(34 * Len(u.init_keys)) \div 256, (34 * Len(u.init_keys)) % 256>>
    \o ConcatAll([i \in 1..Len(u.cipher_suites) |->
                     IF i <= Len(u.init_keys) THEN <<0, 32>> \o u.init_keys[i]
                                              ELSE <<>>])
    \o <<u.algorithm \div 256, u.algorithm % 256>>
    \o <<0, 32>> \o u.identity_key
    \o <<0, 64>> \o u.signature

\* ---- C9, as stated: encode writes a 1-byte count of ciphersuites, the
\* 2-byte ids, the 2-byte length of the key-suite block, per suite a 2-byte
\* key length and the key, the algorithm, and the identity key and the
\* signature each after a 2-byte length.
C9_LayoutWithCount ==
    (init_key.tag = "Ok" /\ buffer # <<>>) => buffer = C9_ClaimedLayout(init_key.val)

\* the same layout with the 1-byte prefix holding the byte length of the ids
\* and with one key field per init key
C9_ByteLengthLayout(u) ==
    <<2 * Len(u.cipher_suites)>>
    \o ConcatAll([i \in 1..Len(u.cipher_suites) |->
                     <<u.cipher_suites[i] \div 256, u.cipher_suites[i] % 256>>])
    \o <<(34 * Len(u.init_keys)) \div 256, (34 * Len(u.init_keys)) % 256>>
    \o ConcatAll([i \in 1..Len(u.init_keys) |-> <<0, 32>> \o u.init_keys[i]])
    \o <<u.algorithm \div 256, u.algorithm % 256>>
    \o <<0, 32>> \o u.identity_key
    \o <<0, 64>> \o u.signature

\* ---- C9, amended: encode writes, in this order and nothing else: a 1-byte
\* byte length of the ciphersuite ids (twice their count) and the 2-byte ids;
\* the 2-byte byte length of the key-suite block and, per init key, a 2-byte
\* key length and the key; the 2-byte algorithm id; a 2-byte length and the
\* identity key; a 2-byte length and the signature.  The object of
\* test_user_init_key encodes to uik_hex.
C9_LayoutWithByteLength ==
    (init_key.tag = "Ok" /\ buffer # <<>>)
        => /\ buffer = C9_ByteLengthLayout(init_key.val)
           /\ init_key.from = "test" => buffer = uik_hex

C9_Witness ==
    /\ init_key.tag = "Ok" /\ init_key.from = "new"
    /\ Len(init_key.val.init_keys) = 2
    /\ buffer = C9_ByteLengthLayout(init_key.val)

\* ---- C10: every UserInitKeyBundle that new or a successful decode returns
\* owns as many private keys as init_key has init keys, and the i-th private
\* key's derived public key is the i-th init key.
C10_BundleKeysMatch ==
    bundle.tag = "Ok" =>
        /\ Len(bundle.val.private_keys) = Len(bundle.val.init_key.init_keys)
        /\ \A i \in 1..Len(bundle.val.private_keys) :
              derive_public_key(bundle.val.private_keys[i])
                  = bundle.val.init_key.init_keys[i]

\* ---- C5: when the Diffie-Hellman of the ephemeral private key and the
\* recipient public key is degenerate, encrypt and encrypt_with_ephemeral
\* return an error value: no panic, and no ciphertext.
C5_DegenerateDhIsAnError ==
    (ciphertext # None
        /\ shared_secret(ciphertext.key_pair.private_key, recipient.val).tag = "Zero")
        => ciphertext.result.tag = "Err"

\* ---- C8: a destroyed X25519PrivateKey or Identity has its private key
\* bytes zeroed before its memory is released, and after any sequence of key
\* generation, use and destruction no released buffer holds private key bytes.
C8_NoReleasedKeyBytes ==
    \A i \in 1..Len(heap) : heap[i].released => IsZero(heap[i].bytes)

\* ---- C11: every HpkeCiphertext that encrypt or encrypt_with_ephemeral
\* returns, for any X25519KeyPair the caller supplies, carries as
\* ephemeral_public_key the public key derived from the private key whose
\* shared secret with the recipient key keyed that ciphertext.
C11_EphemeralKeyDerived ==
    (ciphertext # None /\ ciphertext.result.tag = "Ok")
        => ciphertext.result.val.ephemeral_public_key
               = derive_public_key(ciphertext.key_pair.private_key)

\* ---- C12: for one shared secret, any two calls of
\* setup_base_x25519_aes_128 whose (enc, recipient key, info) differ have
\* different context bytes, hence different "hpke key" labels and different
\* "hpke nonce" labels; and in every call the key label differs from the
\* nonce label.
C12_ContextBinding ==
    /\ \A i \in 1..Len(setups) : setups[i].key_label # setups[i].nonce_label
    /\ \A i \in 1..Len(setups), j \in 1..Len(setups) :
          (setups[i].zz = setups[j].zz
              /\ <<setups[i].enc, setups[i].pkr, setups[i].info>>
                     # <<setups[j].enc, setups[j].pkr, setups[j].info>>)
              => /\ setups[i].context_buffer # setups[j].context_buffer
                 /\ setups[i].key_label # setups[j].key_label
                 /\ setups[i].nonce_label # setups[j].nonce_label

\* two calls that differ in the recipient key only
C12_Witness ==
    /\ Len(setups) = 2
    /\ setups[1].pkr # setups[2].pkr
    /\ setups[1].enc = setups[2].enc
    /\ setups[1].info = setups[2].info
    /\ setups[1].zz = setups[2].zz

\* ---- C13: in an HpkeCiphertext encryption the seal is made under the key
\* and nonce that setup_base derives for the recipient key, the shared secret
\* and enc, with enc as the plaintext and with enc as the additional
\* authenticated data of the seal.
C13_SealedWithEncAsAad ==
    (ciphertext # None /\ ciphertext.result.tag \in {"Ok", "Err"})
        => \E zz \in {shared_secret(ciphertext.key_pair.private_key, recipient.val)} :
           \E kn \in {setup_base_x25519_aes_128(recipient.val, zz.val,
                                                ciphertext.enc, <<>>)} :
              /\ ciphertext.result.seal.key = kn.key
              /\ ciphertext.result.seal.nonce = kn.nonce
              /\ ciphertext.result.seal.plaintext = ciphertext.enc
              /\ ciphertext.result.seal.aad = ciphertext.enc

====
